---- MODULE Spec2Model ----
(***************************************************************************)
(* Model of src/app.py: a form-driven console over SQLite.  One registry   *)
(* file (databases/main.db, table database_list) names the datasets; each  *)
(* dataset has a storage file databases/<name>.db holding one table named  *)
(* data.  The state is the content of the storage directory plus the       *)
(* outcome of the last handler that ran.                                   *)
(***************************************************************************)
EXTENDS Integers, Sequences, FiniteSets, TLC

VARIABLES fs, last

vars == <<fs, last>>

(***************************************************************************)
(* Bounds of the model.                                                    *)
(***************************************************************************)
\* The rows all data tables hold together, and the rows of one CSV file.
MaxRows == 2
MaxBatch == 2

\* The integers typed into number inputs and the creation times drawn.
Ints == {0, 1}
Stamps == {0, 1}

\* Texts are sequences of one-character strings, so that formatting,
\* parsing and substring search are computed.
EmptyText == << >>
Texts == { <<"a">>, <<"1">> }

\* Dataset names typed into the Create form ("" is the empty field).
Names == {"main", "sales"}
NameInputs == Names \cup {""}

\* Python's None, as primary_key holds it after line 190.
PyNone == "<None>"

(***************************************************************************)
(* Values bound to statements: Python int or str.                          *)
(***************************************************************************)
IntV(n) == [t |-> "int", i |-> n, s |-> EmptyText]
TextV(x) == [t |-> "text", i |-> 0, s |-> x]

DigitChars == <<"0", "1", "2", "3", "4", "5", "6", "7", "8", "9">>

IsDigit(c) == \E d \in 1..Len(DigitChars) : DigitChars[d] = c

DigitValue(c) == (CHOOSE d \in 1..Len(DigitChars) : DigitChars[d] = c) - 1

\* str(n) of a non-negative Python int.
RECURSIVE Str(_)
Str(n) ==
    IF n < Len(DigitChars) THEN <<DigitChars[n + 1]>>
    ELSE Str(n \div Len(DigitChars)) \o <<DigitChars[(n % Len(DigitChars)) + 1]>>

\* str(val) as the handlers apply it to a widget value.
PyStr(v) == IF v.t = "int" THEN TextV(Str(v.i)) ELSE v

\* A text the engine (and read_csv) reads as an integer: digits only.
IsNumericText(x) == Len(x) > 0 /\ \A k \in 1..Len(x) : IsDigit(x[k])

RECURSIVE NumericValue(_)
NumericValue(x) ==
    IF Len(x) = 0 THEN 0
    ELSE NumericValue(SubSeq(x, 1, Len(x) - 1)) * Len(DigitChars) + DigitValue(x[Len(x)])

(***************************************************************************)
(* The storage engine: type affinity, comparison, constraints.             *)
(***************************************************************************)
\* The types the Create form offers.
ColumnTypes == {"TEXT", "INTEGER", "REAL", "BLOB", "DATE"}

\* The affinity SQLite derives from a declared type.
Affinity(type) ==
    CASE type = "INTEGER" -> "INTEGER"
      [] type = "TEXT" -> "TEXT"
      [] type = "BLOB" -> "BLOB"
      [] type = "REAL" -> "REAL"
      [] OTHER -> "NUMERIC"

\* The value a column of the given affinity stores for a bound value.
ApplyAffinity(aff, v) ==
    IF aff \in {"INTEGER", "NUMERIC", "REAL"} /\ v.t = "text" /\ IsNumericText(v.s)
    THEN IntV(NumericValue(v.s))
    ELSE IF aff = "TEXT" /\ v.t = "int" THEN TextV(Str(v.i))
    ELSE v

\* column = ? : the parameter takes the column's affinity, then the values
\* compare by storage class and content.
SqlEq(aff, stored, param) == stored = ApplyAffinity(aff, param)

(***************************************************************************)
(* The storage directory: path -> file.  A file holds the tables created   *)
(* in it: database_list (the registry rows) and data (its catalog entries  *)
(* and its rows, in insertion order).                                      *)
(***************************************************************************)
EmptyFile ==
    [tables |-> {}, list |-> {}, cols |-> << >>, indexes |-> << >>, rows |-> << >>]

RegistryPath == "databases/main.db"

\* f'databases/{db_name}.db'
DbPath(db_name) == "databases/" \o db_name \o ".db"

\* sqlite3.connect(path): the file is created when it does not exist.
Connect(fsys, path) ==
    IF path \in DOMAIN fsys THEN fsys ELSE fsys @@ (path :> EmptyFile)

init_db(fsys) ==
    LET f1 == Connect(fsys, RegistryPath)
    IN  [f1 EXCEPT ![RegistryPath].tables = @ \cup {"database_list"}]

get_database_names(fsys) == { r.name : r \in init_db(fsys)[RegistryPath].list }

HasData(fsys, db_name) ==
    DbPath(db_name) \in DOMAIN fsys /\ "data" \in fsys[DbPath(db_name)].tables

(***************************************************************************)
(* create_table and the CREATE TABLE statement it builds.                  *)
(***************************************************************************)
\* Words the engine's parser refuses as a bare column name.
ReservedWords == {"order"}

Min(a, b) == IF a < b THEN a ELSE b

\* column_defs: one definition per zip(columns, column_types) pair.
ColumnDefs(columns, column_types, primary_key, unique_columns) ==
    [k \in 1..Min(Len(columns), Len(column_types)) |->
        [name |-> columns[k],
         type |-> column_types[k],
         pk |-> (primary_key # PyNone /\ columns[k] = primary_key),
         unique |-> (unique_columns # {} /\ columns[k] \in unique_columns)]]

\* INTEGER PRIMARY KEY is the rowid itself and gets no index; any other
\* PRIMARY KEY or UNIQUE column gets one automatic index, named
\* sqlite_autoindex_data_<number>.
NeedsIndex(d) == d.unique \/ (d.pk /\ d.type # "INTEGER")

AutoIndexPrefix ==
    <<"s", "q", "l", "i", "t", "e", "_", "a", "u", "t", "o", "i", "n", "d", "e", "x", "_",
      "d", "a", "t", "a", "_">>

AutoIndexName(k) == AutoIndexPrefix \o Str(k)

AutoIndexes(defs) ==
    LET indexed == SelectSeq(defs, NeedsIndex)
    IN  [k \in 1..Len(indexed) |->
            [number |-> k, column |-> indexed[k].name]]

\* What the statement does to the connected file: [file, raised].
ExecCreateTable(file, defs) ==
    IF Len(defs) = 0 \/ \E k \in 1..Len(defs) : defs[k].name \in ReservedWords
    THEN [file |-> file, raised |-> TRUE]
    ELSE IF "data" \in file.tables
    THEN [file |-> file, raised |-> FALSE]
    ELSE IF \E j, k \in 1..Len(defs) : j # k /\ defs[j].name = defs[k].name
    THEN [file |-> file, raised |-> TRUE]
    ELSE [file |-> [file EXCEPT
                      !.tables = @ \cup {"data"},
                      !.cols = [k \in 1..Len(defs) |->
                                  [name |-> defs[k].name, type |-> defs[k].type,
                                   pk |-> IF defs[k].pk THEN 1 ELSE 0]],
                      !.indexes = AutoIndexes(defs),
                      !.rows = << >>],
          raised |-> FALSE]

\* [fs, raised]: raised when c.execute(query) raises OperationalError.
create_table(fsys, db_name, columns, column_types, primary_key, unique_columns) ==
    LET f1 == Connect(fsys, DbPath(db_name))
        r == ExecCreateTable(f1[DbPath(db_name)],
                             ColumnDefs(columns, column_types, primary_key, unique_columns))
    IN  [fs |-> [f1 EXCEPT ![DbPath(db_name)] = r.file], raised |-> r.raised]

(***************************************************************************)
(* get_columns: the catalog read back.                                     *)
(***************************************************************************)
\* sub in text
Contains(sub, text) ==
    \E k \in 1..(Len(text) - Len(sub) + 1) : SubSeq(text, k, k + Len(sub) - 1) = sub

\* text.replace(old, new)
RECURSIVE Replace(_, _, _)
Replace(text, old, new) ==
    IF Len(text) < Len(old) \/ Len(old) = 0 THEN text
    ELSE IF SubSeq(text, 1, Len(old)) = old
    THEN new \o Replace(SubSeq(text, Len(old) + 1, Len(text)), old, new)
    ELSE <<text[1]>> \o Replace(SubSeq(text, 2, Len(text)), old, new)

Reverse(seq) == [k \in 1..Len(seq) |-> seq[Len(seq) + 1 - k]]

\* PRAGMA table_info(data): (cid, name, type, notnull, dflt_value, pk) rows.
TableInfo(file) ==
    [k \in 1..Len(file.cols) |->
        <<k - 1, file.cols[k].name, file.cols[k].type, 0, PyNone, file.cols[k].pk>>]

\* PRAGMA index_list(data): (seq, name, unique, ...) rows, newest index first.
IndexList(file) ==
    LET idx == Reverse(file.indexes)
    IN  [k \in 1..Len(idx) |-> <<k - 1, AutoIndexName(idx[k].number), 1>>]

UniqueWord == <<"u", "n", "i", "q", "u", "e">>
DataPrefix == <<"d", "a", "t", "a", "_">>
UniqueSuffix == <<"_", "u", "n", "i", "q", "u", "e">>

IsUniqueIndexRow(row) == Contains(UniqueWord, row[2])

get_columns(fsys, db_name) ==
    LET file == Connect(fsys, DbPath(db_name))[DbPath(db_name)]
        info == TableInfo(file)
        named == SelectSeq(IndexList(file), IsUniqueIndexRow)
    IN  [columns |-> [k \in 1..Len(info) |-> <<info[k][2], info[k][3], info[k][6] = 1>>],
         unique_columns |->
            [k \in 1..Len(named) |->
                Replace(Replace(named[k][2], DataPrefix, EmptyText), UniqueSuffix, EmptyText)]]

(***************************************************************************)
(* Row statements on the data table of one file.  A row maps each column   *)
(* name to the stored value.                                               *)
(***************************************************************************)
ColumnNames(file) == { file.cols[k].name : k \in 1..Len(file.cols) }

ColumnType(file, col) ==
    file.cols[CHOOSE k \in 1..Len(file.cols) : file.cols[k].name = col].type

ColumnAffinity(file, col) == Affinity(ColumnType(file, col))

\* The INTEGER PRIMARY KEY column, which is the rowid.
RowidColumns(file) ==
    { file.cols[k].name : k \in { j \in 1..Len(file.cols) :
                                    file.cols[j].pk = 1 /\ file.cols[j].type = "INTEGER" } }

\* The columns on which the engine enforces distinct values.
EnforcedColumns(file) ==
    { file.indexes[k].column : k \in 1..Len(file.indexes) } \cup RowidColumns(file)

StoredRow(file, row) ==
    [c \in DOMAIN row |-> ApplyAffinity(ColumnAffinity(file, c), row[c])]

\* Rows k of a sequence pairwise distinct on every enforced column.
Distinct(file, rows) ==
    \A c \in EnforcedColumns(file) :
        \A j, k \in 1..Len(rows) : j # k => rows[j][c] # rows[k][c]

\* The rowid column holds integers only ("datatype mismatch" otherwise).
RowidTyped(file, rows) ==
    \A c \in RowidColumns(file) : \A k \in 1..Len(rows) : rows[k][c].t = "int"

\* Variant: the row is stored without any constraint check.
ExecInsertUnchecked(file, row) ==
    [file |-> [file EXCEPT !.rows = Append(@, StoredRow(file, row))], error |-> FALSE]

\* INSERT INTO data ... VALUES (...): [file, error]; sqlite3.IntegrityError
\* on a constraint failure or a datatype mismatch.
ExecInsert(file, row) ==
    LET rows == Append(file.rows, StoredRow(file, row))
    IN  IF RowidTyped(file, rows) /\ Distinct(file, rows)
        THEN [file |-> [file EXCEPT !.rows = rows], error |-> FALSE]
        ELSE [file |-> file, error |-> TRUE]

Matches(file, row, col, val) == SqlEq(ColumnAffinity(file, col), row[col], val)

MatchCount(file, col, val) ==
    Cardinality({ k \in 1..Len(file.rows) : Matches(file, file.rows[k], col, val) })

\* UPDATE data SET update_col = ? WHERE condition_col = ?:
\* [file, rowcount, error]; the statement is undone when it fails.
ExecUpdate(file, condition_col, condition_val, update_col, update_val) ==
    LET new == ApplyAffinity(ColumnAffinity(file, update_col), update_val)
        rows == [k \in 1..Len(file.rows) |->
                    IF Matches(file, file.rows[k], condition_col, condition_val)
                    THEN [file.rows[k] EXCEPT ![update_col] = new]
                    ELSE file.rows[k]]
    IN  IF RowidTyped(file, rows) /\ Distinct(file, rows)
        THEN [file |-> [file EXCEPT !.rows = rows],
              rowcount |-> MatchCount(file, condition_col, condition_val),
              error |-> FALSE]
        ELSE [file |-> file, rowcount |-> 0, error |-> TRUE]

\* Variant: the WHERE clause is lost and every row is deleted.
ExecDeleteAll(file, condition_col, condition_val) ==
    [file |-> [file EXCEPT !.rows = << >>], rowcount |-> Len(file.rows)]

Keeps(file, col, val, row) == ~Matches(file, row, col, val)

\* DELETE FROM data WHERE condition_col = ?: [file, rowcount].
ExecDelete(file, condition_col, condition_val) ==
    LET kept == SelectSeq(file.rows,
                          LAMBDA row : Keeps(file, condition_col, condition_val, row))
    IN  [file |-> [file EXCEPT !.rows = kept],
         rowcount |-> Len(file.rows) - Len(kept)]

delete_rows(fsys, db_name, condition_col, condition_val) ==
    LET f1 == Connect(fsys, DbPath(db_name))
        r == ExecDelete(f1[DbPath(db_name)], condition_col, condition_val)
    IN  [fs |-> [f1 EXCEPT ![DbPath(db_name)] = r.file], ret |-> r.rowcount]

\* Variant: the two statement parameters are bound in the wrong order.
update_rowSwapped(fsys, db_name, condition_col, condition_val, update_col, update_val) ==
    LET f1 == Connect(fsys, DbPath(db_name))
        r == ExecUpdate(f1[DbPath(db_name)], condition_col, update_val,
                        update_col, condition_val)
    IN  [fs |-> [f1 EXCEPT ![DbPath(db_name)] = r.file],
         ret |-> IF r.error THEN 0 ELSE r.rowcount,
         error |-> r.error]

\* Returns the row count, or 0 after a caught IntegrityError.
update_row(fsys, db_name, condition_col, condition_val, update_col, update_val) ==
    LET f1 == Connect(fsys, DbPath(db_name))
        r == ExecUpdate(f1[DbPath(db_name)], condition_col, condition_val,
                        update_col, update_val)
    IN  [fs |-> [f1 EXCEPT ![DbPath(db_name)] = r.file],
         ret |-> IF r.error THEN 0 ELSE r.rowcount,
         error |-> r.error]

\* df.to_sql('data', conn, if_exists='append'): the rows are inserted in
\* order inside one transaction: [file, error].
RECURSIVE InsertAll(_, _)
InsertAll(file, df) ==
    IF Len(df) = 0 THEN [file |-> file, error |-> FALSE]
    ELSE LET r == ExecInsert(file, Head(df))
         IN  IF r.error THEN r ELSE InsertAll(r.file, Tail(df))

\* Variant: the rows inserted before the failing one are committed.
ToSqlAppendPartial(file, df) == InsertAll(file, df)

\* The transaction is committed when every insert succeeded and rolled
\* back otherwise.
ToSqlAppend(file, df) ==
    LET r == InsertAll(file, df)
    IN  IF r.error THEN [file |-> file, error |-> TRUE] ELSE r

\* Returns True, or False after a caught IntegrityError.
bulk_import_data(fsys, db_name, df) ==
    LET f1 == Connect(fsys, DbPath(db_name))
        r == ToSqlAppend(f1[DbPath(db_name)], df)
    IN  [fs |-> [f1 EXCEPT ![DbPath(db_name)] = r.file], ret |-> ~r.error]

\* pd.read_csv: a column whose cells all read as integers holds ints, any
\* other column holds the cells as strings.  cells[k][j] is the text of
\* row k in the column header[j].
ReadCsv(header, cells) ==
    [k \in 1..Len(cells) |->
        [c \in { header[j] : j \in 1..Len(header) } |->
            LET j == CHOOSE i \in 1..Len(header) : header[i] = c
            IN  IF \A m \in 1..Len(cells) : IsNumericText(cells[m][j])
                THEN IntV(NumericValue(cells[k][j]))
                ELSE TextV(cells[k][j])]]

(***************************************************************************)
(* main: what one click of each button does.                               *)
(***************************************************************************)
\* Variant: INSERT OR REPLACE, which overwrites the row of an existing name.
RegistryInsertOrReplace(file, name, stamp) ==
    [file |-> [file EXCEPT !.list = { r \in @ : r.name # name }
                                    \cup {[name |-> name, created_date |-> stamp]}],
     error |-> FALSE]

\* INSERT INTO database_list VALUES (?, ?): name is the primary key.
RegistryInsert(file, name, stamp) ==
    IF \E r \in file.list : r.name = name
    THEN [file |-> file, error |-> TRUE]
    ELSE [file |-> [file EXCEPT !.list = @ \cup {[name |-> name, created_date |-> stamp]}],
          error |-> FALSE]

\* Variant: the registry row is taken back when create_table raises.
ClickCreateDatabaseUndo(fsys, new_db_name, stamp, columns, column_types, primary_key, unique_columns) ==
    IF new_db_name = "" \/ Len(columns) = 0
    THEN [fs |-> fsys, outcome |-> "warning"]
    ELSE LET f1 == init_db(fsys)
             ins == RegistryInsert(f1[RegistryPath], new_db_name, stamp)
         IN  IF ins.error
             THEN [fs |-> f1, outcome |-> "duplicate"]
             ELSE LET ct == create_table([f1 EXCEPT ![RegistryPath] = ins.file],
                                         new_db_name, columns, column_types,
                                         primary_key, unique_columns)
                  IN  IF ct.raised
                      THEN [fs |-> [ct.fs EXCEPT ![RegistryPath].list = f1[RegistryPath].list],
                            outcome |-> "raised"]
                      ELSE [fs |-> ct.fs, outcome |-> "ok"]

\* The Create Database button: [fs, outcome].
ClickCreateDatabase(fsys, new_db_name, stamp, columns, column_types, primary_key, unique_columns) ==
    IF new_db_name = "" \/ Len(columns) = 0
    THEN [fs |-> fsys, outcome |-> "warning"]
    ELSE LET f1 == init_db(fsys)
             ins == RegistryInsert(f1[RegistryPath], new_db_name, stamp)
         IN  IF ins.error
             THEN [fs |-> f1, outcome |-> "duplicate"]
             ELSE LET ct == create_table([f1 EXCEPT ![RegistryPath] = ins.file],
                                         new_db_name, columns, column_types,
                                         primary_key, unique_columns)
                  IN  [fs |-> ct.fs,
                       outcome |-> IF ct.raised THEN "raised" ELSE "ok"]

\* The script up to the tabs: get_database_names, get_table_data and
\* get_columns of the selected dataset.  SELECT * FROM data raises when the
\* file holds no data table.
Refresh(fsys, selected_db) ==
    LET f1 == Connect(init_db(fsys), DbPath(selected_db))
    IN  [fs |-> f1, raised |-> "data" \notin f1[DbPath(selected_db)].tables]

\* The script reaches the buttons of the tabs.
TabsShown(fsys, selected_db) ==
    selected_db \in get_database_names(fsys) /\ ~Refresh(fsys, selected_db).raised

\* The Add Row button: new_row_data maps each column to its widget value.
ClickAddRow(fsys, selected_db, new_row_data) ==
    LET columns == get_columns(fsys, selected_db).columns
        values == [k \in 1..Len(columns) |-> new_row_data[columns[k][1]]]
        file == fsys[DbPath(selected_db)]
    IN  IF \E k \in 1..Len(values) : PyStr(values[k]).s = EmptyText
        THEN [fs |-> fsys, outcome |-> "skipped"]
        ELSE LET r == ExecInsert(file, [c \in ColumnNames(file) |->
                        values[CHOOSE k \in 1..Len(file.cols) : file.cols[k].name = c]])
             IN  [fs |-> [fsys EXCEPT ![DbPath(selected_db)] = r.file],
                  outcome |-> IF r.error THEN "integrity" ELSE "ok"]

\* The Update Records button: the new value is bound as str(update_val_input).
ClickUpdateRecords(fsys, selected_db, condition_col, condition_val, update_col, update_val_input) ==
    update_row(fsys, selected_db, condition_col, condition_val, update_col,
               PyStr(update_val_input))

\* The Delete Records button.
ClickDeleteRecords(fsys, selected_db, del_col, del_val) ==
    IF del_val.s = EmptyText
    THEN [fs |-> fsys, ret |-> 0, outcome |-> "skipped"]
    ELSE LET r == delete_rows(fsys, selected_db, del_col, del_val)
         IN  [fs |-> r.fs, ret |-> r.ret, outcome |-> "ok"]

\* The Import Data button, import_df being pd.read_csv(uploaded_file).
ClickImportData(fsys, selected_db, header, cells) ==
    bulk_import_data(fsys, selected_db, ReadCsv(header, cells))

(***************************************************************************)
(* Inputs.                                                                 *)
(***************************************************************************)
Request(columns, column_types, primary_key, unique_columns) ==
    [columns |-> columns, column_types |-> column_types,
     primary_key |-> primary_key, unique_columns |-> unique_columns]

\* The Create requests drawn: constrained and unconstrained tables, a text
\* primary key, a reserved word and a repeated name as column, a request
\* whose types, primary key and unique columns do not fit its columns, and
\* the empty Column Names field.
Requests ==
    { Request(<<"id", "name">>, <<"INTEGER", "TEXT">>, "id", {"name"}),
      Request(<<"name", "id">>, <<"TEXT", "INTEGER">>, PyNone, {}),
      Request(<<"name", "id">>, <<"TEXT", "INTEGER">>, "name", {"id"}),
      Request(<<"order">>, <<"TEXT">>, PyNone, {}),
      Request(<<"id", "id">>, <<"TEXT", "TEXT">>, PyNone, {}),
      Request(<<"id", "name">>, <<"INTEGER">>, "order", {"order"}),
      Request(<< >>, << >>, PyNone, {}) }

\* The datasets the row operations are explored on.
RowNames == {"sales"}
RowStamps == {0}
RowRequests ==
    { Request(<<"id", "name">>, <<"INTEGER", "TEXT">>, "id", {"name"}),
      Request(<<"name", "id">>, <<"TEXT", "INTEGER">>, PyNone, {}),
      Request(<<"name", "id">>, <<"TEXT", "INTEGER">>, "name", {"id"}) }

\* What the input widget of a column of the given type returns.
WidgetValues(type) ==
    IF type = "INTEGER" THEN { IntV(n) : n \in Ints }
    ELSE { TextV(x) : x \in Texts \cup {EmptyText} }

TextInputs == { TextV(x) : x \in Texts \cup {EmptyText} }

\* The cells of the CSV files of 1..MaxBatch rows over n columns.
CsvFiles(n) ==
    UNION { [1..m -> [1..n -> Texts]] : m \in 1..MaxBatch }

\* The uploaded files drawn carry the table's column names as header.
CsvHeader(file) == [k \in 1..Len(file.cols) |-> file.cols[k].name]

RECURSIVE SumRows(_, _)
SumRows(fsys, paths) ==
    IF paths = {} THEN 0
    ELSE LET p == CHOOSE q \in paths : TRUE
         IN  Len(fsys[p].rows) + SumRows(fsys, paths \ {p})

TotalRows(fsys) == SumRows(fsys, DOMAIN fsys)

(***************************************************************************)
(* The state machine.                                                      *)
(***************************************************************************)
\* last: the button clicked, the dataset it acted on, how it ended, the
\* count it reported and, for Create, the request.
NoRequest == Request(<< >>, << >>, PyNone, {})

Outcome(op, db, outcome, ret) ==
    [op |-> op, db |-> db, outcome |-> outcome, ret |-> ret, req |-> NoRequest]

\* The first run of the script: get_database_names creates the registry.
Init ==
    /\ fs = init_db([p \in {} |-> EmptyFile])
    /\ last = Outcome("start", "", "ok", 0)

CreateDatabase(names, stamps, requests) ==
    \E name \in names, stamp \in stamps, req \in requests :
        \E r \in { ClickCreateDatabase(fs, name, stamp, req.columns, req.column_types,
                                       req.primary_key, req.unique_columns) } :
            /\ fs' = r.fs
            /\ last' = [Outcome("create", name, r.outcome, 0) EXCEPT !.req = req]

ViewRefresh ==
    \E sel \in get_database_names(fs) :
        \E r \in { Refresh(fs, sel) } :
            /\ fs' = r.fs
            /\ last' = Outcome("view", sel, IF r.raised THEN "raised" ELSE "ok", 0)

\* The values the Add Row form of a table can hold.
RowInputs(file) ==
    { data \in [ColumnNames(file) -> UNION { WidgetValues(t) : t \in ColumnTypes }] :
        \A c \in ColumnNames(file) : data[c] \in WidgetValues(ColumnType(file, c)) }

AddRow ==
    \E sel \in get_database_names(fs) :
        /\ TabsShown(fs, sel)
        /\ \E data \in RowInputs(fs[DbPath(sel)]) :
            \E r \in { ClickAddRow(fs, sel, data) } :
                /\ TotalRows(r.fs) <= MaxRows
                /\ fs' = r.fs
                /\ last' = Outcome("add", sel, r.outcome, 0)

UpdateRecords ==
    \E sel \in get_database_names(fs) :
        /\ TabsShown(fs, sel)
        /\ \E ccol \in ColumnNames(fs[DbPath(sel)]), ucol \in ColumnNames(fs[DbPath(sel)]),
              cval \in TextInputs :
            \E uval \in WidgetValues(ColumnType(fs[DbPath(sel)], ucol)) :
                \E r \in { ClickUpdateRecords(fs, sel, ccol, cval, ucol, uval) } :
                    /\ fs' = r.fs
                    /\ last' = Outcome("update", sel,
                                       IF r.error THEN "integrity" ELSE "ok", r.ret)

DeleteRecords ==
    \E sel \in get_database_names(fs) :
        /\ TabsShown(fs, sel)
        /\ \E col \in ColumnNames(fs[DbPath(sel)]), val \in TextInputs :
            \E r \in { ClickDeleteRecords(fs, sel, col, val) } :
                /\ fs' = r.fs
                /\ last' = Outcome("delete", sel, r.outcome, r.ret)

ImportData ==
    \E sel \in get_database_names(fs) :
        /\ TabsShown(fs, sel)
        /\ \E cells \in CsvFiles(Len(fs[DbPath(sel)].cols)) :
            \E r \in { ClickImportData(fs, sel, CsvHeader(fs[DbPath(sel)]), cells) } :
                /\ TotalRows(r.fs) <= MaxRows
                /\ fs' = r.fs
                /\ last' = Outcome("import", sel,
                                   IF r.ret THEN "ok" ELSE "integrity", Len(cells))

\* Creation and view refresh, over every name, time and request drawn.
Next ==
    \/ CreateDatabase(NameInputs, Stamps, Requests)
    \/ ViewRefresh

Spec == Init /\ [][Next]_vars

\* The row operations, on datasets created from RowRequests.
NextRows ==
    \/ CreateDatabase(RowNames, RowStamps, RowRequests)
    \/ ViewRefresh
    \/ AddRow
    \/ UpdateRecords
    \/ DeleteRecords
    \/ ImportData

SpecRows == Init /\ [][NextRows]_vars

(***************************************************************************)
(* Properties of creation and introspection (checked under Spec).          *)
(***************************************************************************)
Registered == get_database_names(fs)

\* How Python spells the column names drawn.
ColumnSpelling ==
    [c \in {"id", "name", "order"} |->
        CASE c = "id" -> <<"i", "d">>
          [] c = "name" -> <<"n", "a", "m", "e">>
          [] OTHER -> <<"o", "r", "d", "e", "r">>]

Range(seq) == { seq[k] : k \in 1..Len(seq) }

\* A request as the Create operation requires it.
ValidRequest(req) ==
    /\ Len(req.columns) > 0
    /\ \A j, k \in 1..Len(req.columns) : j # k => req.columns[j] # req.columns[k]
    /\ Len(req.column_types) = Len(req.columns)
    /\ req.primary_key \in Range(req.columns) \cup {PyNone}
    /\ req.unique_columns \subseteq Range(req.columns)

\* A request whose types, primary key or unique columns do not fit its columns.
MisfitRequest(req) ==
    /\ Len(req.columns) > 0
    /\ \/ Len(req.column_types) # Len(req.columns)
       \/ req.primary_key \notin Range(req.columns) \cup {PyNone}
       \/ ~(req.unique_columns \subseteq Range(req.columns))

\* C1: a dataset created from a valid request reads back, through
\* get_columns, with the requested columns in order, their types, the
\* primary-key flag on the requested column only, and the requested set of
\* unique columns.
C1_CreateThenIntrospect ==
    (last.op = "create" /\ last.outcome = "ok" /\ ValidRequest(last.req)) =>
        LET got == get_columns(fs, last.db)
        IN  /\ got.columns =
                  [k \in 1..Len(last.req.columns) |->
                      <<last.req.columns[k], last.req.column_types[k],
                        last.req.columns[k] = last.req.primary_key>>]
            /\ Range(got.unique_columns)
                  = { ColumnSpelling[c] : c \in last.req.unique_columns }

\* C2: a Create attempt (all fields filled) on a name that is already
\* registered ends in the duplicate-name message and changes nothing: no
\* file, registry row, creation time, schema or row.
C2_DuplicateRejected ==
    [][(last'.op = "create" /\ last'.db \in Registered /\ last'.outcome # "warning")
          => (last'.outcome = "duplicate" /\ fs' = fs)]_vars

C2_DuplicateAttempted ==
    /\ last.op = "create"
    /\ last.outcome = "duplicate"
    /\ HasData(fs, last.db)
    /\ \E r \in fs[RegistryPath].list : r.name = last.db /\ r.created_date = 1

C8_ErrorsCaught ==
    /\ last.outcome # "raised"
    /\ \A n \in Registered : ~Refresh(fs, n).raised

\* C9: the storage files of distinct registered datasets are distinct and
\* none of them is the registry's file.
C9_StorageIsolated ==
    \A n \in Registered :
        /\ DbPath(n) # RegistryPath
        /\ \A m \in Registered : m # n => DbPath(m) # DbPath(n)

\* A registered name without a data table.
Orphan(fsys, n) == n \in get_database_names(fsys) /\ ~HasData(fsys, n)

\* C10: when create_table raises after the registry insert, the name stays
\* registered without a data table, and a name in that condition stays in
\* it across every later operation.
C10_NoRollback ==
    [][/\ (last'.op = "create" /\ last'.outcome = "raised") => Orphan(fs', last'.db)
       /\ \A n \in Names : Orphan(fs, n) => Orphan(fs', n)]_vars

C10_OrphanPersists ==
    \E n \in Names :
        /\ Orphan(fs, n)
        /\ last.op = "create" /\ last.db # n /\ last.outcome = "ok"

(***************************************************************************)
(* Properties of the row operations (checked under SpecRows).  Each is     *)
(* stated over every click the state admits.                               *)
(***************************************************************************)
Shown == { n \in Registered : TabsShown(fs, n) }

RowsOf(fsys, n) == fsys[DbPath(n)].rows

\* The primary-key column and the columns declared unique, as the catalog
\* records them.
PrimaryKeyColumns(file) ==
    { file.cols[k].name : k \in { j \in 1..Len(file.cols) : file.cols[j].pk = 1 } }

KeyColumns(file) ==
    PrimaryKeyColumns(file) \cup { file.indexes[k].column : k \in 1..Len(file.indexes) }

\* The text typed into a condition field denotes the stored value.
Denotes(text, stored) ==
    \/ stored.t = "text" /\ stored.s = text.s
    \/ stored.t = "int" /\ IsNumericText(text.s) /\ NumericValue(text.s) = stored.i

MatchingRows(rows, col, text) == { k \in 1..Len(rows) : Denotes(text, rows[k][col]) }

Filled(data) == \A c \in DOMAIN data : data[c].t = "int" \/ data[c].s # EmptyText

\* C3: an Add Row insert whose values equal those of an existing row on
\* the primary-key column or on a unique column ends in the
\* constraint-violation message and leaves the rows as they were.
C3_InsertCollisionRejected ==
    \A n \in Shown :
        \A data \in RowInputs(fs[DbPath(n)]) :
            LET r == ClickAddRow(fs, n, data)
            IN  (/\ Filled(data)
                 /\ \E c \in KeyColumns(fs[DbPath(n)]) :
                        \E k \in 1..Len(RowsOf(fs, n)) : RowsOf(fs, n)[k][c] = data[c])
                    => (r.outcome = "integrity" /\ r.fs = fs)

C3_CollisionSeen ==
    /\ last.op = "add"
    /\ last.outcome = "integrity"
    /\ Len(RowsOf(fs, last.db)) >= 1

\* C4: an update that violates no constraint sets the target column to the
\* new value in exactly the rows whose condition column equals the match
\* value, changes nothing else, keeps the number of rows and returns the
\* number of rows it changed; with no matching row it returns 0 and leaves
\* the rows as they were.
C4_UpdateExact ==
    \A n \in Shown :
        \A ccol \in ColumnNames(fs[DbPath(n)]), ucol \in ColumnNames(fs[DbPath(n)]),
           cval \in TextInputs :
            \A uval \in WidgetValues(ColumnType(fs[DbPath(n)], ucol)) :
                LET r == ClickUpdateRecords(fs, n, ccol, cval, ucol, uval)
                    old == RowsOf(fs, n)
                    new == RowsOf(r.fs, n)
                    hit == MatchingRows(old, ccol, cval)
                IN  /\ ~r.error =>
                        /\ Len(new) = Len(old)
                        /\ r.ret = Cardinality(hit)
                        /\ \A k \in 1..Len(old) :
                              IF k \in hit
                              THEN new[k] = [old[k] EXCEPT ![ucol] = uval]
                              ELSE new[k] = old[k]
                        /\ \A p \in DOMAIN fs \ {DbPath(n)} : r.fs[p] = fs[p]
                    /\ hit = {} => (r.ret = 0 /\ r.fs = fs)

C4_UpdateSeen ==
    /\ last.op = "update"
    /\ last.outcome = "ok"
    /\ last.ret >= 1
    /\ Len(RowsOf(fs, last.db)) > last.ret

\* C5: delete_rows removes exactly the rows whose column equals the value,
\* keeps the others as they were and returns the number removed; the same
\* call made again at once returns 0 and removes nothing.
C5_DeleteExact ==
    \A n \in Shown :
        \A col \in ColumnNames(fs[DbPath(n)]), val \in TextInputs :
            LET r == delete_rows(fs, n, col, val)
                again == delete_rows(r.fs, n, col, val)
                old == RowsOf(fs, n)
                hit == MatchingRows(old, col, val)
            IN  /\ RowsOf(r.fs, n) = SelectSeq(old, LAMBDA row : ~Denotes(val, row[col]))
                /\ r.ret = Cardinality(hit)
                /\ \A p \in DOMAIN fs \ {DbPath(n)} : r.fs[p] = fs[p]
                /\ again.ret = 0
                /\ again.fs = r.fs

C5_DeleteSeen ==
    /\ last.op = "delete"
    /\ last.outcome = "ok"
    /\ last.ret >= 1
    /\ Len(RowsOf(fs, last.db)) >= 1

\* The rows of a frame as the table would store them, after the rows held.
Appended(file, df) == file.rows \o [k \in 1..Len(df) |-> StoredRow(file, df[k])]

\* No row of the frame breaks the primary key or a unique column: the
\* values on each key column stay pairwise distinct and an INTEGER primary
\* key holds integers.
CleanImport(file, df) ==
    LET all == Appended(file, df)
    IN  \A c \in KeyColumns(file) :
            /\ \A j, k \in 1..Len(all) : j < k => all[j][c] # all[k][c]
            /\ (c \in PrimaryKeyColumns(file) /\ ColumnType(file, c) = "INTEGER")
                  => \A k \in 1..Len(all) : all[k][c].t = "int"

\* C6: bulk_import_data is all-or-nothing: a frame of N rows none of which
\* breaks a constraint is appended whole and the call returns True; a frame
\* with a row that breaks one leaves the rows as they were and the call
\* returns False.
C6_ImportAllOrNothing ==
    \A n \in Shown :
        \A cells \in CsvFiles(Len(fs[DbPath(n)].cols)) :
            LET file == fs[DbPath(n)]
                df == ReadCsv(CsvHeader(file), cells)
                r == ClickImportData(fs, n, CsvHeader(file), cells)
            IN  IF CleanImport(file, df)
                THEN /\ r.ret
                     /\ Len(RowsOf(r.fs, n)) = Len(file.rows) + Len(cells)
                     /\ SubSeq(RowsOf(r.fs, n), 1, Len(file.rows)) = file.rows
                ELSE /\ ~r.ret
                     /\ r.fs = fs

C6_ImportRefused ==
    /\ last.op = "import"
    /\ last.outcome = "integrity"
    /\ last.ret = 2
    /\ Len(RowsOf(fs, last.db)) >= 1

====
